---- MODULE Spec2Model ----
(***************************************************************************)
(* The video-organizer pipeline as a state machine: the ingestion service  *)
(* (sync_sources.py), the analysis worker (video_analyzer.py) and the      *)
(* organization worker (jellyfin_organizer.py) acting on the PostgreSQL    *)
(* tables videos, jobs, analysis_results, media_matches, organized_files   *)
(* and on the Redis lists analysis_queue, organization_queue, upload_queue.*)
(* Every action is one database commit or one Redis command of the code,   *)
(* together with the reads that precede it; a failing call (database       *)
(* unreachable, Redis error, unreadable file, backend error) is a branch   *)
(* of the action, drawn from a bounded budget of faults.                   *)
(***************************************************************************)
EXTENDS Integers, Sequences, FiniteSets, Bags, TLC

\* ------------------------------------------------------------- bounds ----
MaxFiles == 3          \* files under RAW_VIDEO_PATH
HashWidth == 4         \* size of the modelled fingerprint space
MaxFaults == 1         \* failing calls (database, Redis, file, backend) per run
MaxRedeliver == 2      \* duplicate deliveries of a queue notification
MaxInterrupts == 1     \* KeyboardInterrupts delivered to workers
MaxResults == 2        \* entries in a catalog search result
MaxName == 5           \* characters in a name given to sanitize_filename

\* The processes: two ingestion runs, two analysis workers, two organizers.
Ingesters == {"i1", "i2"}
Analyzers == {"a1", "a2"}
Organizers == {"o1", "o2"}

Files == 1..MaxFiles
\* Files 1 and 2 are byte-identical, file 3 differs (and 4 equals 3, ...).
Content(f) == (f + 1) \div 2

\* calculate_file_hash: a digest of the bytes alone (never of the path).
Xxh64(bytes) == (bytes * 3) % HashWidth
calculate_file_hash(f) == Xxh64(Content(f))

Statuses == {"pending", "analyzing", "analyzed", "organizing", "organized", "error"}

VARIABLES
    videos,              \* table videos: sequence of rows, id = index (serial)
    jobs,                \* table jobs: bag of rows
    analysis_results,    \* table analysis_results: bag of rows
    media_matches,       \* table media_matches: bag of rows
    organized_files,     \* table organized_files: bag of rows
    analysis_queue,      \* Redis list: head = left end
    organization_queue,  \* Redis list
    upload_queue,        \* Redis list
    ipc, itodo, ifile, ivid, outcome,   \* ingestion runs
    apc, acur,           \* analysis workers: place in the loop, popped id
    pod_available,       \* analysis workers: what check_pod_status returned
    opc, ocur, omatch,   \* organization workers: place, popped id, match
    resolved,            \* ids for which auto_match has returned a match
    catalog_queries,     \* bag of ids: one copy per search of the catalog
    catalog_failed,      \* ids whose search of the catalog raised
    faults, redelivered, interrupts,
    db_reachable,        \* the database server accepts connections
    removed,             \* registered files no longer in the raw directory
    call, ret, returned  \* one call of a function of the organizer: the
                         \* function's name and arguments, its result

dbvars == <<videos, jobs, analysis_results, media_matches, organized_files>>
qvars == <<analysis_queue, organization_queue, upload_queue>>
ivars == <<ipc, itodo, ifile, ivid, outcome>>
avars == <<apc, acur, pod_available>>
ovars == <<opc, ocur, omatch>>
catalogvars == <<resolved, catalog_queries, catalog_failed>>
envvars == <<faults, redelivered, interrupts, db_reachable, removed>>
fnvars == <<call, ret, returned>>
pipevars == <<dbvars, qvars, ivars, avars, ovars, catalogvars, envvars>>
vars == <<pipevars, fnvars>>

\* ------------------------------------------------------------ helpers ----
VideoIds == 1..Len(videos)
SetStatus(v, s) == [videos EXCEPT ![v].status = s]
JobRow(type, v) == [job_type |-> type, video_id |-> v, status |-> "queued"]
Row(v) == [video_id |-> v]
RowsOf(table, v) == {r \in BagToSet(table) : r.video_id = v}
Rows(table, v) == BagCardinality([r \in RowsOf(table, v) |-> table[r]])
InsertRow(table, row) == table (+) SetToBag({row})

\* redis lpush / brpop: push on the left, pop from the right.
lpush(q, x) == <<x>> \o q
brpop_value(q) == q[Len(q)]
brpop_rest(q) == SubSeq(q, 1, Len(q) - 1)

InQueue(q, v) == \E i \in 1..Len(q) : q[i] = v

Fault == faults < MaxFaults

\* A database call fails: the server is unreachable (every call fails as
\* long as it is), or this one call fails.
DbFault == ~db_reachable \/ Fault
CountDbFault == faults' = IF db_reachable THEN faults + 1 ELSE faults

\* Path.exists() on the source file of video v is False: the file has been
\* removed, or it is not there this once (a share that is not mounted).
FileMissing(v) == videos[v].source_path \in removed \/ Fault
CountFileMissing(v) ==
    faults' = IF videos[v].source_path \in removed THEN faults ELSE faults + 1

\* Python's None where a number is expected, and where a title is.
NoneInt == -1
NoTitle == <<>>

\* The matcher returns None or a match dict; confidence is kept in
\* hundredths (best_score, which the code divides by 100.0).
NoneMatch ==
    [media_type |-> "None", tmdb_id |-> 0, title |-> NoTitle, year |-> NoneInt,
     season |-> NoneInt, episode |-> NoneInt, episode_title |-> NoTitle,
     confidence |-> 0]

\* The match an organizer works with and where it came from ("auto_match",
\* "media_matches", "fallback"); none outside organize_video.
InUse(m, origin) == [match |-> m, origin |-> origin]
NoMatchInUse == InUse(NoneMatch, "none")

\* ------------------------------------------------------------- Init ------
\* jellyfin_organizer.py annotates store_match with typing.Dict without
\* importing it: on interpreters that evaluate annotations at definition
\* time the module fails to load and no organizer ever runs.
InitPipelineWith(files) ==
    /\ videos = <<>>
    /\ jobs = EmptyBag
    /\ analysis_results = EmptyBag
    /\ media_matches = EmptyBag
    /\ organized_files = EmptyBag
    /\ analysis_queue = <<>>
    /\ organization_queue = <<>>
    /\ upload_queue = <<>>
    /\ ipc = [p \in Ingesters |-> "scan"]
    /\ itodo = [p \in Ingesters |-> files]
    /\ ifile = [p \in Ingesters |-> 0]
    /\ ivid = [p \in Ingesters |-> 0]
    /\ outcome = [p \in Ingesters |-> [f \in Files |-> "none"]]
    /\ apc = [w \in Analyzers |-> "check"]
    /\ acur = [w \in Analyzers |-> 0]
    /\ pod_available = [w \in Analyzers |-> FALSE]
    /\ \E loads \in BOOLEAN :
          opc = [w \in Organizers |-> IF loads THEN "pop" ELSE "stopped"]
    /\ ocur = [w \in Organizers |-> 0]
    /\ omatch = [w \in Organizers |-> NoMatchInUse]
    /\ resolved = {}
    /\ catalog_queries = EmptyBag
    /\ catalog_failed = {}
    /\ faults = 0
    /\ redelivered = 0
    /\ interrupts = 0
    /\ db_reachable = TRUE
    /\ removed = {}

\* The raw directory holds the files Files.
InitPipeline == InitPipelineWith(Files)

NoCall == [fn |-> "none"]

\* The raw directory holds one file.
InitOneFile ==
    /\ InitPipelineWith({1})
    /\ call = NoCall
    /\ ret = NoCall
    /\ returned = FALSE

Init ==
    /\ InitPipeline
    /\ call = NoCall
    /\ ret = NoCall
    /\ returned = FALSE

\* ------------------------------------------------- ingestion service ----
\* SELECT id FROM videos WHERE file_hash = %s: is there such a row?
SelectByHash_never(h) == FALSE
SelectByHash(h) == \E v \in VideoIds : videos[v].file_hash = h

\* The videos table's UNIQUE constraint on file_hash ("content_fingerprint
\* (unique)" in the data model): an INSERT of an existing hash is refused.
UniqueFileHash_absent(h) == TRUE
UniqueFileHash(h) == \A v \in VideoIds : videos[v].file_hash # h

\* What process_synced_files logs for a file: "added" (Added video),
\* "duplicate" (Skipping duplicate), "unreadable" (Error hashing), "refused"
\* (Error processing: the INSERT violated the constraint), "failed" (Error
\* processing: the database call failed).
SetOutcome(p, f, o) == [outcome EXCEPT ![p][f] = o]

\* process_synced_files, the next file of the rglob (the directory is
\* enumerated in one fixed order): calculate_file_hash, which returns None
\* when the file cannot be read, and then the file is skipped.
NextFile(todo) == {f \in todo : \A g \in todo : f <= g}

\* The same without "if not file_hash: continue": the file whose hash could
\* not be computed goes on to the duplicate check.
IngestHash_unchecked(p) ==
    /\ ipc[p] = "scan"
    /\ \E f \in NextFile(itodo[p]) :
          /\ itodo' = [itodo EXCEPT ![p] = @ \ {f}]
          /\ ifile' = [ifile EXCEPT ![p] = f]
          /\ ipc' = [ipc EXCEPT ![p] = "select"]
          /\ \/ UNCHANGED <<outcome, faults>>
             \/ /\ Fault
                /\ faults' = faults + 1
                /\ outcome' = SetOutcome(p, f, "unreadable")
    /\ UNCHANGED <<dbvars, qvars, ivid, avars, ovars, redelivered, interrupts,
                   db_reachable, removed>>
    /\ UNCHANGED <<catalogvars, fnvars>>

IngestHash(p) ==
    /\ ipc[p] = "scan"
    /\ \E f \in NextFile(itodo[p]) :
          /\ itodo' = [itodo EXCEPT ![p] = @ \ {f}]
          /\ \/ /\ ifile' = [ifile EXCEPT ![p] = f]
                /\ ipc' = [ipc EXCEPT ![p] = "select"]
                /\ UNCHANGED <<outcome, faults>>
             \/ /\ Fault
                /\ faults' = faults + 1
                /\ outcome' = SetOutcome(p, f, "unreadable")
                /\ UNCHANGED <<ifile, ipc>>
    /\ UNCHANGED <<dbvars, qvars, ivid, avars, ovars, redelivered, interrupts,
                   db_reachable,
                   removed>>
    /\ UNCHANGED <<catalogvars, fnvars>>

\* The except clause of process_synced_files: log, conn.rollback(), next
\* file. With the server unreachable the rollback raises as well (the
\* connection is gone), out of the loop: the run ends there.
IngestRollback(p) ==
    itodo' = IF db_reachable THEN itodo ELSE [itodo EXCEPT ![p] = {}]

\* A duplicate check that puts the id of the row found back on the queue.
IngestSelect_requeue(p) ==
    /\ ipc[p] = "select"
    /\ \/ /\ db_reachable
          /\ \E v \in VideoIds :
                /\ videos[v].file_hash = calculate_file_hash(ifile[p])
                /\ analysis_queue' = lpush(analysis_queue, v)
          /\ outcome' = SetOutcome(p, ifile[p], "duplicate")
          /\ ipc' = [ipc EXCEPT ![p] = "scan"]
          /\ UNCHANGED <<itodo, faults>>
       \/ /\ db_reachable
          /\ ~SelectByHash(calculate_file_hash(ifile[p]))
          /\ ipc' = [ipc EXCEPT ![p] = "insert"]
          /\ UNCHANGED <<analysis_queue, itodo, outcome, faults>>
       \/ /\ DbFault
          /\ CountDbFault
          /\ outcome' = SetOutcome(p, ifile[p], "failed")
          /\ ipc' = [ipc EXCEPT ![p] = "scan"]
          /\ IngestRollback(p)
          /\ UNCHANGED analysis_queue
    /\ UNCHANGED <<dbvars, organization_queue, upload_queue, ifile, ivid,
                   avars, ovars, redelivered, interrupts, db_reachable,
                   removed>>
    /\ UNCHANGED <<catalogvars, fnvars>>

\* The duplicate check: a row with this hash exists -> "Skipping duplicate".
IngestSelect(p) ==
    /\ ipc[p] = "select"
    /\ \/ /\ db_reachable
          /\ SelectByHash(calculate_file_hash(ifile[p]))
          /\ outcome' = SetOutcome(p, ifile[p], "duplicate")
          /\ ipc' = [ipc EXCEPT ![p] = "scan"]
          /\ UNCHANGED <<itodo, faults>>
       \/ /\ db_reachable
          /\ ~SelectByHash(calculate_file_hash(ifile[p]))
          /\ ipc' = [ipc EXCEPT ![p] = "insert"]
          /\ UNCHANGED <<itodo, outcome, faults>>
       \/ /\ DbFault
          /\ CountDbFault
          /\ outcome' = SetOutcome(p, ifile[p], "failed")
          /\ ipc' = [ipc EXCEPT ![p] = "scan"]
          /\ IngestRollback(p)
    /\ UNCHANGED <<dbvars, qvars, ifile, ivid, avars, ovars,
                   redelivered, interrupts, db_reachable,
                   removed>>
    /\ UNCHANGED <<catalogvars, fnvars>>

\* INSERT INTO videos (... 'pending') RETURNING id; conn.commit(). A refused
\* or failed INSERT raises, is logged by the except clause and rolled back.
IngestInsert(p) ==
    /\ ipc[p] = "insert"
    /\ \/ /\ db_reachable
          /\ UniqueFileHash(calculate_file_hash(ifile[p]))
          /\ videos' = Append(videos,
                 [source_path |-> ifile[p],
                  file_hash |-> calculate_file_hash(ifile[p]),
                  status |-> "pending"])
          /\ ivid' = [ivid EXCEPT ![p] = Len(videos) + 1]
          /\ outcome' = SetOutcome(p, ifile[p], "added")
          /\ ipc' = [ipc EXCEPT ![p] = "queue_job"]
          /\ UNCHANGED <<itodo, faults>>
       \/ /\ db_reachable
          /\ ~UniqueFileHash(calculate_file_hash(ifile[p]))     \* IntegrityError
          /\ outcome' = SetOutcome(p, ifile[p], "refused")
          /\ ipc' = [ipc EXCEPT ![p] = "scan"]
          /\ UNCHANGED <<videos, ivid, itodo, faults>>
       \/ /\ DbFault
          /\ CountDbFault
          /\ outcome' = SetOutcome(p, ifile[p], "failed")
          /\ ipc' = [ipc EXCEPT ![p] = "scan"]
          /\ IngestRollback(p)
          /\ UNCHANGED <<videos, ivid>>
    /\ UNCHANGED <<jobs, analysis_results, media_matches, organized_files,
                   qvars, ifile, avars, ovars, redelivered, interrupts,
                   db_reachable,
                   removed>>
    /\ UNCHANGED <<catalogvars, fnvars>>

\* queue_for_analysis, first half: a connection of its own, INSERT INTO jobs
\* ('analyze', id, 'queued'), commit. A failure propagates to the except
\* clause of process_synced_files, which goes on with the next file.
IngestQueueJob(p) ==
    /\ ipc[p] = "queue_job"
    /\ \/ /\ db_reachable
          /\ jobs' = InsertRow(jobs, JobRow("analyze", ivid[p]))
          /\ ipc' = [ipc EXCEPT ![p] = "queue_push"]
          /\ UNCHANGED <<itodo, faults>>
       \/ /\ DbFault
          /\ CountDbFault
          /\ ipc' = [ipc EXCEPT ![p] = "scan"]
          /\ IngestRollback(p)
          /\ UNCHANGED jobs
    /\ UNCHANGED <<videos, analysis_results, media_matches, organized_files,
                   qvars, ifile, ivid, outcome, avars, ovars,
                   redelivered, interrupts, db_reachable,
                   removed>>
    /\ UNCHANGED <<catalogvars, fnvars>>

\* queue_for_analysis, second half: redis lpush analysis_queue id.
IngestQueuePush(p) ==
    /\ ipc[p] = "queue_push"
    /\ \/ /\ analysis_queue' = lpush(analysis_queue, ivid[p])
          /\ UNCHANGED faults
       \/ /\ Fault
          /\ faults' = faults + 1
          /\ UNCHANGED analysis_queue
    /\ ipc' = [ipc EXCEPT ![p] = "scan"]
    /\ UNCHANGED <<dbvars, organization_queue, upload_queue, itodo, ifile,
                   ivid, outcome, avars, ovars, redelivered, interrupts,
                   db_reachable,
                   removed>>
    /\ UNCHANGED <<catalogvars, fnvars>>

Ingest(p) ==
    \/ IngestHash(p)
    \/ IngestSelect(p)
    \/ IngestInsert(p)
    \/ IngestQueueJob(p)
    \/ IngestQueuePush(p)

\* ---------------------------------------------------- analysis worker ----
\* The except clause of analyze_video: UPDATE videos SET status = 'error',
\* itself inside try/except-pass (the update is lost when it fails too),
\* then return False: the worker starts its next iteration.
AnalyzeFails(w) ==
    /\ \E written \in (IF db_reachable THEN BOOLEAN ELSE {FALSE}) :
          videos' = IF written THEN SetStatus(acur[w], "error") ELSE videos
    /\ apc' = [apc EXCEPT ![w] = "check"]
    /\ acur' = [acur EXCEPT ![w] = 0]

\* analyze_video returns (True or False; the loop does not use the result).
AnalyzeReturns(w) ==
    /\ apc' = [apc EXCEPT ![w] = "check"]
    /\ acur' = [acur EXCEPT ![w] = 0]

\* RunPodClient.check_pod_status: True without a pod id (serverless), True
\* for a pod whose status is 'running', False for any other status and when
\* the status request raises.
check_pod_status == BOOLEAN

\* The loop without the test of the returned value: the brpop follows the
\* check whatever it returned.
AnalyzerCheckPod_ignored(w) ==
    /\ apc[w] = "check"
    /\ \E available \in check_pod_status :
          /\ pod_available' = [pod_available EXCEPT ![w] = available]
          /\ apc' = [apc EXCEPT ![w] = "pop"]
    /\ UNCHANGED <<dbvars, qvars, ivars, acur, ovars, envvars>>
    /\ UNCHANGED <<catalogvars, fnvars>>

\* process_analysis_queue, top of the loop: "if not check_pod_status()" sends
\* the worker to sleep(30) and "continue"; otherwise it goes on to the brpop.
\* pod_available holds the value returned until the brpop has been made.
AnalyzerCheckPod(w) ==
    /\ apc[w] = "check"
    /\ \E available \in check_pod_status :
          /\ pod_available' = [pod_available EXCEPT ![w] = available]
          /\ apc' = [apc EXCEPT ![w] = IF available THEN "pop" ELSE "sleep"]
    /\ UNCHANGED <<dbvars, qvars, ivars, acur, ovars, envvars>>
    /\ UNCHANGED <<catalogvars, fnvars>>

\* time.sleep(30) is over; "continue" starts the next iteration.
AnalyzerSleep(w) ==
    /\ apc[w] = "sleep"
    /\ apc' = [apc EXCEPT ![w] = "check"]
    /\ UNCHANGED <<dbvars, qvars, ivars, acur, pod_available, ovars, envvars>>
    /\ UNCHANGED <<catalogvars, fnvars>>

\* redis brpop analysis_queue, timeout 10: the rightmost element, removed
\* atomically, or nothing on a timeout. A Redis error reaches the outer
\* except clause (sleep 5, next iteration).
brpop_analysis(w) ==
    /\ analysis_queue # <<>>
    /\ acur' = [acur EXCEPT ![w] = brpop_value(analysis_queue)]
    /\ analysis_queue' = brpop_rest(analysis_queue)
    /\ apc' = [apc EXCEPT ![w] = "analyze"]

AnalyzerPop(w) ==
    /\ apc[w] = "pop"
    /\ pod_available' = [pod_available EXCEPT ![w] = FALSE]
    /\ \/ /\ brpop_analysis(w)
          /\ UNCHANGED faults
       \/ /\ analysis_queue = <<>>
          /\ apc' = [apc EXCEPT ![w] = "check"]
          /\ UNCHANGED <<acur, analysis_queue, faults>>
       \/ /\ Fault
          /\ faults' = faults + 1
          /\ apc' = [apc EXCEPT ![w] = "check"]
          /\ UNCHANGED <<acur, analysis_queue>>
    /\ UNCHANGED <<dbvars, organization_queue, upload_queue, ivars, ovars,
                   redelivered, interrupts, db_reachable,
                   removed>>
    /\ UNCHANGED <<catalogvars, fnvars>>

\* analyze_video up to its first write: get_db_connection (outside the try:
\* a failure escapes to the worker loop), SELECT the video, the source file
\* must exist (else return False), UPDATE status = 'analyzing', commit; a
\* database error inside the try reaches the except clause.
\* (No row of videos is ever deleted, so the SELECT finds the video.)
AnalyzeBegin(w) ==
    /\ apc[w] = "analyze"
    /\ \/ /\ db_reachable
          /\ videos[acur[w]].source_path \notin removed
          /\ videos' = SetStatus(acur[w], "analyzing")
          /\ apc' = [apc EXCEPT ![w] = "extract"]
          /\ UNCHANGED <<acur, faults>>
       \/ /\ DbFault        \* get_db_connection raises
          /\ CountDbFault
          /\ apc' = [apc EXCEPT ![w] = "requeue"]
          /\ UNCHANGED <<videos, acur>>
       \/ /\ db_reachable   \* the source file is missing
          /\ FileMissing(acur[w])
          /\ CountFileMissing(acur[w])
          /\ AnalyzeReturns(w)
          /\ UNCHANGED videos
       \/ /\ db_reachable   \* the SELECT or the UPDATE raises
          /\ Fault
          /\ faults' = faults + 1
          /\ AnalyzeFails(w)
    /\ UNCHANGED <<jobs, analysis_results, media_matches, organized_files,
                   qvars, ivars, ovars, redelivered, interrupts, db_reachable,
                   removed>>
    /\ UNCHANGED <<catalogvars, fnvars>>
    /\ UNCHANGED pod_available

\* Metadata, frames and audio: no frames -> return False (the status stays
\* 'analyzing'); the metadata UPDATE raising -> the except clause. A failed
\* transcription is swallowed by transcribe_audio, which returns "".
AnalyzeExtract(w) ==
    /\ apc[w] = "extract"
    /\ \/ /\ db_reachable
          /\ videos[acur[w]].source_path \notin removed
          /\ apc' = [apc EXCEPT ![w] = "backend"]
          /\ UNCHANGED <<videos, acur, faults>>
       \/ /\ db_reachable   \* extract_frames returns []
          /\ FileMissing(acur[w])
          /\ CountFileMissing(acur[w])
          /\ AnalyzeReturns(w)
          /\ UNCHANGED videos
       \/ /\ DbFault        \* an exception
          /\ CountDbFault
          /\ AnalyzeFails(w)
    /\ UNCHANGED <<jobs, analysis_results, media_matches, organized_files,
                   qvars, ivars, ovars, redelivered, interrupts, db_reachable,
                   removed>>
    /\ UNCHANGED <<catalogvars, fnvars>>
    /\ UNCHANGED pod_available

\* runpod_client.analyze_video_frames: the result, or an exception (the
\* 300 s timeout, an HTTP error, no result from the endpoint) that is logged
\* and raised again, and so reaches the except clause of analyze_video.
AnalyzeBackend(w) ==
    /\ apc[w] = "backend"
    /\ \/ /\ apc' = [apc EXCEPT ![w] = "store"]
          /\ UNCHANGED <<videos, acur, faults>>
       \/ /\ Fault
          /\ faults' = faults + 1
          /\ AnalyzeFails(w)
    /\ UNCHANGED <<jobs, analysis_results, media_matches, organized_files,
                   qvars, ivars, ovars, redelivered, interrupts, db_reachable,
                   removed>>
    /\ UNCHANGED <<catalogvars, fnvars>>
    /\ UNCHANGED pod_available

\* store_analysis_results: a plain INSERT INTO analysis_results and commit;
\* an exception is logged and rolled back, and analyze_video goes on.
store_analysis_results(v) == InsertRow(analysis_results, Row(v))

AnalyzeStore(w) ==
    /\ apc[w] = "store"
    /\ \/ /\ db_reachable
          /\ analysis_results' = store_analysis_results(acur[w])
          /\ UNCHANGED faults
       \/ /\ DbFault
          /\ CountDbFault
          /\ UNCHANGED analysis_results
    /\ apc' = [apc EXCEPT ![w] = "advance"]
    /\ UNCHANGED <<videos, jobs, media_matches, organized_files, qvars, ivars,
                   acur, ovars, redelivered, interrupts, db_reachable,
                   removed>>
    /\ UNCHANGED <<catalogvars, fnvars>>
    /\ UNCHANGED pod_available

\* UPDATE videos SET status = 'analyzed'; commit.
AnalyzeAdvance(w) ==
    /\ apc[w] = "advance"
    /\ \/ /\ db_reachable
          /\ videos' = SetStatus(acur[w], "analyzed")
          /\ apc' = [apc EXCEPT ![w] = "org_job"]
          /\ UNCHANGED <<acur, faults>>
       \/ /\ DbFault
          /\ CountDbFault
          /\ AnalyzeFails(w)
    /\ UNCHANGED <<jobs, analysis_results, media_matches, organized_files,
                   qvars, ivars, ovars, redelivered, interrupts, db_reachable,
                   removed>>
    /\ UNCHANGED <<catalogvars, fnvars>>
    /\ UNCHANGED pod_available

\* queue_for_organization, first half: a connection of its own, INSERT INTO
\* jobs ('organize', id, 'queued'), commit. It is called inside the try of
\* analyze_video, so a failure reaches the except clause.
AnalyzeQueueJob(w) ==
    /\ apc[w] = "org_job"
    /\ \/ /\ db_reachable
          /\ jobs' = InsertRow(jobs, JobRow("organize", acur[w]))
          /\ apc' = [apc EXCEPT ![w] = "org_push"]
          /\ UNCHANGED <<videos, acur, faults>>
       \/ /\ DbFault
          /\ CountDbFault
          /\ AnalyzeFails(w)
          /\ UNCHANGED jobs
    /\ UNCHANGED <<analysis_results, media_matches, organized_files, qvars,
                   ivars, ovars, redelivered, interrupts, db_reachable,
                   removed>>
    /\ UNCHANGED <<catalogvars, fnvars>>
    /\ UNCHANGED pod_available

\* queue_for_organization, second half: redis lpush organization_queue id,
\* then analyze_video returns True.
AnalyzeQueuePush(w) ==
    /\ apc[w] = "org_push"
    /\ \/ /\ organization_queue' = lpush(organization_queue, acur[w])
          /\ AnalyzeReturns(w)
          /\ UNCHANGED <<videos, faults>>
       \/ /\ Fault
          /\ faults' = faults + 1
          /\ AnalyzeFails(w)
          /\ UNCHANGED organization_queue
    /\ UNCHANGED <<jobs, analysis_results, media_matches, organized_files,
                   analysis_queue, upload_queue, ivars, ovars,
                   redelivered, interrupts, db_reachable,
                   removed>>
    /\ UNCHANGED <<catalogvars, fnvars>>
    /\ UNCHANGED pod_available

\* The worker's except clause around analyze_video: sleep 5, then lpush the
\* id back on analysis_queue; a Redis error there reaches the outer except.
AnalyzerRequeue(w) ==
    /\ apc[w] = "requeue"
    /\ \/ /\ analysis_queue' = lpush(analysis_queue, acur[w])
          /\ UNCHANGED faults
       \/ /\ Fault
          /\ faults' = faults + 1
          /\ UNCHANGED analysis_queue
    /\ apc' = [apc EXCEPT ![w] = "check"]
    /\ acur' = [acur EXCEPT ![w] = 0]
    /\ UNCHANGED <<dbvars, organization_queue, upload_queue, ivars, ovars,
                   redelivered, interrupts, db_reachable,
                   removed>>
    /\ UNCHANGED <<catalogvars, fnvars>>
    /\ UNCHANGED pod_available

Analyzer(w) ==
    \/ AnalyzerCheckPod(w)
    \/ AnalyzerSleep(w)
    \/ AnalyzerPop(w)
    \/ AnalyzeBegin(w)
    \/ AnalyzeExtract(w)
    \/ AnalyzeBackend(w)
    \/ AnalyzeStore(w)
    \/ AnalyzeAdvance(w)
    \/ AnalyzeQueueJob(w)
    \/ AnalyzeQueuePush(w)
    \/ AnalyzerRequeue(w)

\* ------------------------------------------------------- tmdb_matcher ----
\* "if x:" on an Optional[int]: None and 0 are false.
Truthy(x) == x # NoneInt /\ x # 0

Abs(x) == IF x < 0 THEN 0 - x ELSE x
Min(a, b) == IF a <= b THEN a ELSE b

\* Defaults of the matcher: confidence_threshold of match_movie and
\* match_tv_show, the raised threshold of the ambiguous path, its early
\* return above 0.85 (in hundredths), the year bonus and the tolerances.
confidence_threshold == 70
ambiguous_threshold == 80
ambiguous_accept == 85
year_bonus == 10
movie_year_tolerance == 1
tv_year_tolerance == 2
top_results == 10

\* Titles of the catalog entries, as sequences of characters.
CatalogTitles ==
    << <<"A", "/", "B", ":", " ", "T", "e", "s", "t">>, <<"U", "p">> >>
TitleOf(id) == CatalogTitles[((id - 1) % Len(CatalogTitles)) + 1]

\* The loop over results[:10]: best_score starts at 0 and a candidate
\* replaces the best one only with a strictly greater score.
RECURSIVE BestFrom(_, _, _)
BestFrom(scores, i, best) ==
    IF i > Len(scores) THEN best
    ELSE BestFrom(scores, i + 1,
                  IF scores[i] > best.score
                  THEN [idx |-> i, score |-> scores[i]] ELSE best)
\* The loop with "title_score >= best_score": the last of the best wins.
BestOf_last(scores) ==
    LET best == BestFrom(scores, 1, [idx |-> 0, score |-> 0])
    IN IF best.idx = 0 THEN best
       ELSE [idx |-> CHOOSE i \in 1..Len(scores) :
                        /\ scores[i] = best.score
                        /\ \A j \in (i + 1)..Len(scores) : scores[j] # best.score,
             score |-> best.score]
BestOf(scores) == BestFrom(scores, 1, [idx |-> 0, score |-> 0])

\* A search result: score is fuzz.ratio of the two lower-cased titles
\* (0..100), year the year of release_date / first_air_date (NoneInt when
\* the date is missing or empty: int('') raises and the bonus is skipped).
MovieScore_no_bonus(c, year) == c.score
MovieScore(c, year) ==
    IF Truthy(year) /\ c.year # NoneInt
          /\ Abs(c.year - year) <= movie_year_tolerance
    THEN c.score + year_bonus ELSE c.score

TvScore(c, year) ==
    IF Truthy(year) /\ c.year # NoneInt
          /\ Abs(c.year - year) <= tv_year_tolerance
    THEN c.score + year_bonus ELSE c.score

Top(results) == SubSeq(results, 1, Min(Len(results), top_results))

\* match_movie(title, year, confidence_threshold) on the search results.
match_movie(year, threshold, results) ==
    LET top == Top(results)
        best == BestOf([i \in 1..Len(top) |-> MovieScore(top[i], year)])
    IN IF results = <<>> \/ best.idx = 0 \/ best.score < threshold
       THEN NoneMatch
       ELSE [media_type |-> "movie", tmdb_id |-> best.idx,
             title |-> TitleOf(best.idx), year |-> top[best.idx].year,
             season |-> NoneInt, episode |-> NoneInt,
             episode_title |-> NoTitle, confidence |-> best.score]

\* match_tv_show(title, season, episode, year, confidence_threshold); the
\* episode title is looked up only "if season and episode", and stays None
\* when that lookup fails (episode_name = NoTitle).
match_tv_show(season, episode, year, threshold, results, episode_name) ==
    LET top == Top(results)
        best == BestOf([i \in 1..Len(top) |-> TvScore(top[i], year)])
    IN IF results = <<>> \/ best.idx = 0 \/ best.score < threshold
       THEN NoneMatch
       ELSE [media_type |-> "tv", tmdb_id |-> best.idx,
             title |-> TitleOf(best.idx), year |-> top[best.idx].year,
             season |-> season, episode |-> episode,
             episode_title |-> IF Truthy(season) /\ Truthy(episode)
                               THEN episode_name ELSE NoTitle,
             confidence |-> best.score]

IsMatch(m) == m.media_type # "None"

\* What match_movie and match_tv_show return when the search or the details
\* request raises: "except Exception: log; return None". auto_match hands
\* that on, on every path when every request fails.
match_failed == NoneMatch

\* auto_match whose ambiguous path prefers the movie whenever both paths
\* produced a result.
auto_match_prefer_movie(a, cat) ==
    IF ~a.has_title THEN NoneMatch
    ELSE IF a.content_type = "movie"
    THEN match_movie(a.year, confidence_threshold, cat.movies)
    ELSE IF a.content_type = "tv_episode"
    THEN match_tv_show(a.season, a.episode, a.year, confidence_threshold,
                       cat.shows, cat.episode_name)
    ELSE LET movie_match == match_movie(a.year, ambiguous_threshold, cat.movies)
             tv_match == match_tv_show(NoneInt, NoneInt, a.year,
                                       ambiguous_threshold, cat.shows,
                                       cat.episode_name)
         IN IF IsMatch(movie_match) /\ movie_match.confidence > ambiguous_accept
            THEN movie_match
            ELSE IF IsMatch(tv_match) /\ tv_match.confidence > ambiguous_accept
            THEN tv_match
            ELSE IF IsMatch(movie_match) THEN movie_match ELSE tv_match
\* auto_match without the raised threshold of its ambiguous path.
auto_match_unraised(a, cat) ==
    IF ~a.has_title THEN NoneMatch
    ELSE IF a.content_type = "movie"
    THEN match_movie(a.year, confidence_threshold, cat.movies)
    ELSE IF a.content_type = "tv_episode"
    THEN match_tv_show(a.season, a.episode, a.year, confidence_threshold,
                       cat.shows, cat.episode_name)
    ELSE LET movie_match == match_movie(a.year, confidence_threshold, cat.movies)
             tv_match == match_tv_show(NoneInt, NoneInt, a.year,
                                       confidence_threshold, cat.shows,
                                       cat.episode_name)
         IN IF IsMatch(movie_match) /\ movie_match.confidence > ambiguous_accept
            THEN movie_match
            ELSE IF IsMatch(tv_match) /\ tv_match.confidence > ambiguous_accept
            THEN tv_match
            ELSE IF IsMatch(movie_match) /\ IsMatch(tv_match)
            THEN (IF movie_match.confidence > tv_match.confidence
                  THEN movie_match ELSE tv_match)
            ELSE IF IsMatch(movie_match) THEN movie_match ELSE tv_match
\* auto_match(analysis_result): a is the joined row of videos and
\* analysis_results (content_type, has_title, detected_year/season/episode),
\* cat the catalog's answers (movies, shows, episode_name).
auto_match(a, cat) ==
    IF ~a.has_title THEN NoneMatch
    ELSE IF a.content_type = "movie"
    THEN match_movie(a.year, confidence_threshold, cat.movies)
    ELSE IF a.content_type = "tv_episode"
    THEN match_tv_show(a.season, a.episode, a.year, confidence_threshold,
                       cat.shows, cat.episode_name)
    ELSE LET movie_match == match_movie(a.year, ambiguous_threshold, cat.movies)
             tv_match == match_tv_show(NoneInt, NoneInt, a.year,
                                       ambiguous_threshold, cat.shows,
                                       cat.episode_name)
         IN IF IsMatch(movie_match) /\ movie_match.confidence > ambiguous_accept
            THEN movie_match
            ELSE IF IsMatch(tv_match) /\ tv_match.confidence > ambiguous_accept
            THEN tv_match
            ELSE IF IsMatch(movie_match) /\ IsMatch(tv_match)
            THEN (IF movie_match.confidence > tv_match.confidence
                  THEN movie_match ELSE tv_match)
            ELSE IF IsMatch(movie_match) THEN movie_match ELSE tv_match

\* The searches of the catalog that auto_match makes, in order: the path,
\* the threshold and the season and episode handed to it. On the ambiguous
\* path the show search is made only after the movie result has failed the
\* test "confidence > 0.85".
Search(path, threshold, season, episode) ==
    [path |-> path, threshold |-> threshold, season |-> season,
     episode |-> episode]
auto_match_searches(a, cat) ==
    IF ~a.has_title THEN <<>>
    ELSE IF a.content_type = "movie"
    THEN <<Search("movie", confidence_threshold, NoneInt, NoneInt)>>
    ELSE IF a.content_type = "tv_episode"
    THEN <<Search("tv", confidence_threshold, a.season, a.episode)>>
    ELSE LET movie_match == match_movie(a.year, ambiguous_threshold, cat.movies)
         IN <<Search("movie", ambiguous_threshold, NoneInt, NoneInt)>>
            \o (IF IsMatch(movie_match)
                      /\ movie_match.confidence > ambiguous_accept
                THEN <<>>
                ELSE <<Search("tv", ambiguous_threshold, NoneInt, NoneInt)>>)

\* ------------------------------------------------------------- naming ----
\* A file name is a sequence of characters (a formatted piece such as " ("
\* or a year is one element). A path is a sequence of names.
invalid_chars == {"<", ">", ":", "\"", "/", "\\", "|", "?", "*"}
Whitespace == {" ", "\t"}

IsValidChar(c) == c \notin invalid_chars

\* re.sub(r'\s+', ' ', name): every run of whitespace becomes one space.
RECURSIVE CollapseSpaces(_)
CollapseSpaces(name) ==
    IF name = <<>> THEN <<>>
    ELSE IF Head(name) \in Whitespace
    THEN IF Len(name) > 1 /\ name[2] \in Whitespace
         THEN CollapseSpaces(Tail(name))
         ELSE <<" ">> \o CollapseSpaces(Tail(name))
    ELSE <<Head(name)>> \o CollapseSpaces(Tail(name))

\* str.strip()
RECURSIVE LStrip(_)
LStrip(name) ==
    IF name # <<>> /\ Head(name) \in Whitespace THEN LStrip(Tail(name)) ELSE name
RECURSIVE RStrip(_)
RStrip(name) ==
    IF name # <<>> /\ name[Len(name)] \in Whitespace
    THEN RStrip(SubSeq(name, 1, Len(name) - 1)) ELSE name
Strip(name) == RStrip(LStrip(name))

\* The three steps with the first two exchanged: whitespace is collapsed
\* before the invalid characters are removed.
sanitize_filename_collapse_first(name) ==
    Strip(SelectSeq(CollapseSpaces(name), IsValidChar))
sanitize_filename(name) == Strip(CollapseSpaces(SelectSeq(name, IsValidChar)))

\* str(year) in an f-string; None prints as "None".
YearStr(y) ==
    CASE y = 2018 -> "2018" [] y = 2019 -> "2019" [] y = 2020 -> "2020"
      [] OTHER -> "None"
\* f"{n:02d}" for the small numbers used here.
TwoDigits(n) == CASE n = 0 -> "00" [] n = 1 -> "01" [] n = 2 -> "02" [] OTHER -> "03"

\* JELLYFIN_MOVIES_PATH, JELLYFIN_TV_PATH, JELLYFIN_OTHER_PATH (defaults).
movies_path == << <<"organized">>, <<"Movies">> >>
tv_path == << <<"organized">>, <<"TV Shows">> >>
other_path == << <<"organized">>, <<"Other">> >>

\* A function of the namer returns a path or raises.
Path(p) == [raised |-> FALSE, path |-> p]
Raised == [raised |-> TRUE, path |-> <<>>]

generate_movie_path(match, original_extension) ==
    LET title == sanitize_filename(match.title)
        folder_name == title \o <<" (", YearStr(match.year), ")">>
    IN Path(movies_path \o <<folder_name, folder_name \o original_extension>>)

\* f"Season {season:02d}" and f"s{season:02d}e{episode:02d}": the format
\* specification raises TypeError when season or episode is None.
generate_tv_path(match, original_extension) ==
    IF match.season = NoneInt \/ match.episode = NoneInt THEN Raised
    ELSE LET show_title == sanitize_filename(match.title)
             season_folder == <<"Season ", TwoDigits(match.season)>>
             episode_name ==
                 show_title \o <<" - s", TwoDigits(match.season),
                                 "e", TwoDigits(match.episode)>>
                 \o (IF match.episode_title # NoTitle
                     THEN <<" - ">> \o sanitize_filename(match.episode_title)
                     ELSE <<>>)
                 \o original_extension
         IN Path(tv_path \o <<show_title, season_folder, episode_name>>)

generate_path(match, original_extension) ==
    IF match.media_type = "movie"
    THEN generate_movie_path(match, original_extension)
    ELSE IF match.media_type = "tv"
    THEN generate_tv_path(match, original_extension)
    ELSE Path(other_path
              \o <<sanitize_filename(match.title \o original_extension)>>)

\* ------------------------------------------------ organization worker ----
\* The except clause of organize_video: UPDATE videos SET status = 'error'
\* inside try/except-pass, then return False.
OrganizeFails(w) ==
    /\ \E written \in (IF db_reachable THEN BOOLEAN ELSE {FALSE}) :
          videos' = IF written THEN SetStatus(ocur[w], "error") ELSE videos
    /\ opc' = [opc EXCEPT ![w] = "pop"]
    /\ ocur' = [ocur EXCEPT ![w] = 0]
    /\ omatch' = [omatch EXCEPT ![w] = NoMatchInUse]

\* organize_video returns True.
OrganizeReturns(w) ==
    /\ opc' = [opc EXCEPT ![w] = "pop"]
    /\ ocur' = [ocur EXCEPT ![w] = 0]
    /\ omatch' = [omatch EXCEPT ![w] = NoMatchInUse]

\* redis brpop organization_queue, timeout 10.
brpop_organization(w) ==
    /\ organization_queue # <<>>
    /\ ocur' = [ocur EXCEPT ![w] = brpop_value(organization_queue)]
    /\ organization_queue' = brpop_rest(organization_queue)
    /\ opc' = [opc EXCEPT ![w] = "organize"]

OrganizerPop(w) ==
    /\ opc[w] = "pop"
    /\ \/ /\ brpop_organization(w)
          /\ UNCHANGED faults
       \/ /\ organization_queue = <<>>
          /\ UNCHANGED <<ocur, organization_queue, opc, faults>>
       \/ /\ Fault
          /\ faults' = faults + 1
          /\ UNCHANGED <<ocur, organization_queue, opc>>
    /\ UNCHANGED <<dbvars, analysis_queue, upload_queue, ivars, avars, omatch,
                   redelivered, interrupts, db_reachable,
                   removed>>
    /\ UNCHANGED <<catalogvars, fnvars>>

\* organize_video up to its first write: get_db_connection (outside the
\* try: a failure escapes to the worker loop, which logs, sleeps and goes
\* on without re-queueing), SELECT, UPDATE status = 'organizing', commit.
OrganizeBegin(w) ==
    /\ opc[w] = "organize"
    /\ \/ /\ db_reachable
          /\ videos' = SetStatus(ocur[w], "organizing")
          /\ opc' = [opc EXCEPT ![w] = "match"]
          /\ UNCHANGED <<ocur, omatch, faults>>
       \/ /\ DbFault        \* get_db_connection raises
          /\ CountDbFault
          /\ opc' = [opc EXCEPT ![w] = "failed"]
          /\ UNCHANGED <<videos, ocur, omatch>>
       \/ /\ db_reachable   \* the SELECT or the UPDATE raises
          /\ Fault
          /\ faults' = faults + 1
          /\ OrganizeFails(w)
    /\ UNCHANGED <<jobs, analysis_results, media_matches, organized_files,
                   qvars, ivars, avars, redelivered, interrupts, db_reachable,
                   removed>>
    /\ UNCHANGED <<catalogvars, fnvars>>

\* The worker's except clause around organize_video: "Organization failed"
\* is logged, sleep 5, and the loop goes on; the id is not pushed back.
OrganizerFailed(w) ==
    /\ opc[w] = "failed"
    /\ opc' = [opc EXCEPT ![w] = "pop"]
    /\ ocur' = [ocur EXCEPT ![w] = 0]
    /\ UNCHANGED <<dbvars, qvars, ivars, avars, omatch, envvars>>
    /\ UNCHANGED <<catalogvars, fnvars>>

\* SELECT * FROM media_matches WHERE video_id = %s ORDER BY match_confidence
\* DESC LIMIT 1: a row of the Item with the greatest confidence.
SelectMatch_any(v) == RowsOf(media_matches, v)
SelectMatch(v) ==
    {r \in RowsOf(media_matches, v) :
        \A q \in RowsOf(media_matches, v) :
            q.match.confidence <= r.match.confidence}

\* "Check if already has a match": an existing row is used as the match,
\* otherwise the organizer goes on to auto_match.
OrganizeSelectMatch(w) ==
    /\ opc[w] = "match"
    /\ \/ /\ db_reachable
          /\ \E r \in SelectMatch(ocur[w]) :
                omatch' = [omatch EXCEPT ![w] = InUse(r.match, "media_matches")]
          /\ opc' = [opc EXCEPT ![w] = "place"]
          /\ UNCHANGED <<videos, ocur, faults>>
       \/ /\ db_reachable
          /\ RowsOf(media_matches, ocur[w]) = {}
          /\ opc' = [opc EXCEPT ![w] = "auto_match"]
          /\ UNCHANGED <<videos, ocur, omatch, faults>>
       \/ /\ DbFault
          /\ CountDbFault
          /\ OrganizeFails(w)
    /\ UNCHANGED <<jobs, analysis_results, media_matches, organized_files,
                   qvars, ivars, avars, redelivered, interrupts, db_reachable,
                   removed>>
    /\ UNCHANGED <<catalogvars, fnvars>>

\* The names of the raw files: Path(source_path).stem and .suffix.
Digits == <<"1", "2", "3", "4", "5", "6", "7", "8", "9">>
Stem(f) == <<"c", "l", "i", "p", Digits[f]>>
Suffix(f) == <<".mkv">>

\* The synthetic match used when auto_match returns None.
UnknownMatch_movie(f) ==
    [NoneMatch EXCEPT !.media_type = "movie", !.title = Stem(f)]
UnknownMatch(f) ==
    [NoneMatch EXCEPT !.media_type = "unknown", !.title = Stem(f)]

\* What the organizer's SELECT (videos LEFT JOIN analysis_results) and the
\* catalog can answer for an Item.
OrganizerRows ==
    {[content_type |-> t, has_title |-> h, year |-> NoneInt,
      season |-> NoneInt, episode |-> NoneInt] :
        t \in {"movie", "unknown"}, h \in BOOLEAN}
OrganizerCatalogs ==
    {[movies |-> m, shows |-> sh, episode_name |-> NoTitle] :
        m \in {<<>>, <<[score |-> 75, year |-> 2020]>>},
        sh \in {<<>>, <<[score |-> 95, year |-> 2020]>>}}

\* store_match: a plain INSERT INTO media_matches and commit; an exception
\* is logged and rolled back.
store_match(v, m) == InsertRow(media_matches, [video_id |-> v, match |-> m])

\* match = self.matcher.auto_match(video): with a title the catalog is
\* searched; a match is stored with store_match, and without a match the
\* organizer goes on with the synthetic 'unknown' match.
OrganizeAutoMatch(w) ==
    /\ opc[w] = "auto_match"
    /\ \/ \E a \in OrganizerRows : \E cat \in OrganizerCatalogs :
             LET m == auto_match(a, cat) IN
             /\ catalog_queries' =
                   IF a.has_title THEN catalog_queries (+) SetToBag({ocur[w]})
                   ELSE catalog_queries
             /\ UNCHANGED catalog_failed
             /\ IF IsMatch(m)
                THEN /\ omatch' = [omatch EXCEPT ![w] = InUse(m, "auto_match")]
                     /\ resolved' = resolved \cup {ocur[w]}
                     /\ \/ /\ db_reachable
                           /\ media_matches' = store_match(ocur[w], m)
                           /\ UNCHANGED faults
                        \/ /\ DbFault
                           /\ CountDbFault
                           /\ UNCHANGED media_matches
                ELSE /\ omatch' = [omatch EXCEPT ![w] =
                           InUse(UnknownMatch(videos[ocur[w]].source_path),
                                 "fallback")]
                     /\ UNCHANGED <<resolved, media_matches, faults>>
       \/ /\ Fault        \* a title is searched and the catalog's requests raise
          /\ faults' = faults + 1
          /\ catalog_queries' = catalog_queries (+) SetToBag({ocur[w]})
          /\ catalog_failed' = catalog_failed \cup {ocur[w]}
          /\ omatch' = [omatch EXCEPT ![w] =
                InUse(IF IsMatch(match_failed) THEN match_failed
                      ELSE UnknownMatch(videos[ocur[w]].source_path),
                      "fallback")]
          /\ UNCHANGED <<resolved, media_matches>>
    /\ opc' = [opc EXCEPT ![w] = "place"]
    /\ UNCHANGED <<videos, jobs, analysis_results, organized_files, qvars,
                   ivars, avars, ocur, redelivered, interrupts, db_reachable,
                   removed>>
    /\ UNCHANGED fnvars

\* organize_video with a failed INSERT INTO organized_files swallowed, the
\* way store_analysis_results swallows its own.
OrganizePlace_swallowed(w) ==
    /\ opc[w] = "place"
    /\ LET target == generate_path(omatch[w].match,
                                   Suffix(videos[ocur[w]].source_path)) IN
       \/ /\ db_reachable
          /\ videos[ocur[w]].source_path \notin removed
          /\ ~target.raised
          /\ organized_files' =
                InsertRow(organized_files,
                          [video_id |-> ocur[w], jellyfin_path |-> target.path])
          /\ opc' = [opc EXCEPT ![w] = "advance"]
          /\ UNCHANGED <<videos, ocur, omatch, faults>>
       \/ /\ target.raised
          /\ OrganizeFails(w)
          /\ UNCHANGED <<organized_files, faults>>
       \/ /\ videos[ocur[w]].source_path \in removed    \* copy2 raises
          /\ OrganizeFails(w)
          /\ UNCHANGED <<organized_files, faults>>
       \/ /\ DbFault
          /\ CountDbFault
          /\ opc' = [opc EXCEPT ![w] = "advance"]
          /\ UNCHANGED <<videos, ocur, omatch, organized_files>>
    /\ UNCHANGED <<jobs, analysis_results, media_matches, qvars, ivars, avars,
                   redelivered, interrupts, db_reachable,
                   removed>>
    /\ UNCHANGED <<catalogvars, fnvars>>

\* generate_path, mkdir, shutil.copy2, the NFO file, then INSERT INTO
\* organized_files (video_id, jellyfin_path, ...); commit. Anything that
\* raises reaches the except clause.
OrganizePlace(w) ==
    /\ opc[w] = "place"
    /\ LET target == generate_path(omatch[w].match,
                                   Suffix(videos[ocur[w]].source_path)) IN
       \/ /\ db_reachable
          /\ videos[ocur[w]].source_path \notin removed
          /\ ~target.raised
          /\ organized_files' =
                InsertRow(organized_files,
                          [video_id |-> ocur[w], jellyfin_path |-> target.path])
          /\ opc' = [opc EXCEPT ![w] = "advance"]
          /\ UNCHANGED <<videos, ocur, omatch, faults>>
       \/ /\ target.raised
          /\ OrganizeFails(w)
          /\ UNCHANGED <<organized_files, faults>>
       \/ /\ videos[ocur[w]].source_path \in removed    \* copy2 raises
          /\ OrganizeFails(w)
          /\ UNCHANGED <<organized_files, faults>>
       \/ /\ DbFault
          /\ CountDbFault
          /\ OrganizeFails(w)
          /\ UNCHANGED organized_files
    /\ UNCHANGED <<jobs, analysis_results, media_matches, qvars, ivars, avars,
                   redelivered, interrupts, db_reachable,
                   removed>>
    /\ UNCHANGED <<catalogvars, fnvars>>

\* UPDATE videos SET status = 'organized'; commit.
OrganizeAdvance(w) ==
    /\ opc[w] = "advance"
    /\ \/ /\ db_reachable
          /\ videos' = SetStatus(ocur[w], "organized")
          /\ opc' = [opc EXCEPT ![w] = "upload"]
          /\ UNCHANGED <<ocur, omatch, faults>>
       \/ /\ DbFault
          /\ CountDbFault
          /\ OrganizeFails(w)
    /\ UNCHANGED <<jobs, analysis_results, media_matches, organized_files,
                   qvars, ivars, avars, redelivered, interrupts, db_reachable,
                   removed>>
    /\ UNCHANGED <<catalogvars, fnvars>>

\* queue_for_upload: redis lpush upload_queue, inside the try of
\* organize_video; then return True.
OrganizeQueueUpload(w) ==
    /\ opc[w] = "upload"
    /\ \/ /\ upload_queue' = lpush(upload_queue, ocur[w])
          /\ OrganizeReturns(w)
          /\ UNCHANGED <<videos, faults>>
       \/ /\ Fault
          /\ faults' = faults + 1
          /\ OrganizeFails(w)
          /\ UNCHANGED upload_queue
    /\ UNCHANGED <<jobs, analysis_results, media_matches, organized_files,
                   analysis_queue, organization_queue, ivars, avars,
                   redelivered, interrupts, db_reachable,
                   removed>>
    /\ UNCHANGED <<catalogvars, fnvars>>

Organizer(w) ==
    \/ OrganizerPop(w)
    \/ OrganizeBegin(w)
    \/ OrganizerFailed(w)
    \/ OrganizeSelectMatch(w)
    \/ OrganizeAutoMatch(w)
    \/ OrganizePlace(w)
    \/ OrganizeAdvance(w)
    \/ OrganizeQueueUpload(w)

\* -------------------------------------------------------- environment ----
\* except KeyboardInterrupt: break. The interrupt is no Exception, so it
\* passes the handlers' except clauses: the worker leaves its loop wherever
\* it is, and the item it was working on is left as it is (acur keeps its
\* id for the record).
InterruptAnalyzer(w) ==
    /\ apc[w] # "stopped"
    /\ interrupts < MaxInterrupts
    /\ interrupts' = interrupts + 1
    /\ apc' = [apc EXCEPT ![w] = "stopped"]
    /\ pod_available' = [pod_available EXCEPT ![w] = FALSE]
    /\ UNCHANGED <<dbvars, qvars, ivars, acur, ovars, faults, redelivered,
                   db_reachable,
                   removed>>
    /\ UNCHANGED <<catalogvars, fnvars>>

InterruptOrganizer(w) ==
    /\ opc[w] # "stopped"
    /\ interrupts < MaxInterrupts
    /\ interrupts' = interrupts + 1
    /\ opc' = [opc EXCEPT ![w] = "stopped"]
    /\ UNCHANGED <<dbvars, qvars, ivars, avars, ocur, omatch, faults,
                   redelivered, db_reachable,
                   removed>>
    /\ UNCHANGED <<catalogvars, fnvars>>

\* The database server stops accepting connections, and stays so.
DbGoesDown ==
    /\ db_reachable
    /\ db_reachable' = FALSE
    /\ UNCHANGED <<dbvars, qvars, ivars, avars, ovars, catalogvars, fnvars,
                   faults, redelivered, interrupts, removed>>

\* The source file of a registered video is removed from the raw directory.
FileRemoved ==
    /\ \E v \in VideoIds :
          /\ videos[v].source_path \notin removed
          /\ removed' = removed \cup {videos[v].source_path}
    /\ UNCHANGED <<dbvars, qvars, ivars, avars, ovars, catalogvars, fnvars,
                   faults, redelivered, interrupts, db_reachable>>

\* The work queue delivers at least once: a notification that is in a list,
\* or that a worker has popped and is still working on, is delivered again.
AHolds(w, v) == acur[w] = v /\ apc[w] \notin {"check", "sleep", "pop", "stopped"}
OHolds(w, v) == ocur[w] = v /\ opc[w] \notin {"pop", "failed", "stopped"}

Redeliver ==
    /\ redelivered < MaxRedeliver
    /\ redelivered' = redelivered + 1
    /\ \E v \in VideoIds :
          \/ /\ InQueue(analysis_queue, v) \/ \E w \in Analyzers : AHolds(w, v)
             /\ analysis_queue' = lpush(analysis_queue, v)
             /\ UNCHANGED organization_queue
          \/ /\ InQueue(organization_queue, v) \/ \E w \in Organizers : OHolds(w, v)
             /\ organization_queue' = lpush(organization_queue, v)
             /\ UNCHANGED analysis_queue
    /\ UNCHANGED <<dbvars, upload_queue, ivars, avars, ovars, faults, interrupts,
                   db_reachable,
                   removed>>
    /\ UNCHANGED <<catalogvars, fnvars>>

\* ----------------------------------------- calls of single functions ----
\* The inputs from which one call is drawn.
Scores == {0, 65, 75, 80, 95}
ReleaseYears == {NoneInt, 2018, 2019, 2020}
DetectedYears == {NoneInt, 2020}
Thresholds == {confidence_threshold, ambiguous_threshold}
Candidates == [score : Scores, year : ReleaseYears]
ResultLists(n) == UNION {[1..k -> Candidates] : k \in 0..n}
EpisodeNames == {NoTitle, <<"P", "i", "l", "o", "t">>}
\* Search results with one entry more than match_movie looks at: the same
\* candidate top_results times, then another one.
LongResultLists ==
    {[i \in 1..(top_results + 1) |-> IF i <= top_results THEN c ELSE d] :
        c \in Candidates, d \in Candidates}

AnalysisRows ==
    [content_type : {"movie", "tv_episode", "documentary", "unknown", "None"},
     has_title : BOOLEAN,
     year : DetectedYears, season : {NoneInt, 1}, episode : {NoneInt, 2}]
Catalogs ==
    [movies : ResultLists(MaxResults - 1), shows : ResultLists(MaxResults - 1),
     episode_name : EpisodeNames]

MatcherCalls ==
    [fn : {"match_movie"}, year : DetectedYears, threshold : Thresholds,
     results : ResultLists(MaxResults) \cup LongResultLists]
    \cup [fn : {"match_tv_show"}, season : {NoneInt, 1}, episode : {NoneInt, 2},
          year : DetectedYears, threshold : Thresholds,
          results : ResultLists(MaxResults), episode_name : EpisodeNames]
    \cup [fn : {"auto_match"}, a : AnalysisRows, cat : Catalogs]

InitMatcher ==
    /\ InitPipeline
    /\ call \in MatcherCalls
    /\ ret = NoCall
    /\ returned = FALSE

Return(value) ==
    /\ ~returned
    /\ ret' = value
    /\ returned' = TRUE
    /\ UNCHANGED <<call, pipevars>>

CallMatchMovie ==
    /\ call.fn = "match_movie"
    /\ Return(match_movie(call.year, call.threshold, call.results))

CallMatchTvShow ==
    /\ call.fn = "match_tv_show"
    /\ Return(match_tv_show(call.season, call.episode, call.year,
                            call.threshold, call.results, call.episode_name))

CallAutoMatch ==
    /\ call.fn = "auto_match"
    /\ Return(auto_match(call.a, call.cat))

\* The matches organize_video can hand to generate_path: what auto_match
\* returns (directly or read back from media_matches) and the synthetic
\* 'unknown' match of a file.
OrganizerMatches ==
    ({auto_match(a, cat) : a \in AnalysisRows, cat \in Catalogs} \ {NoneMatch})
    \cup {UnknownMatch(f) : f \in Files}

NameChars == {"A", " ", "\t", "/", ":"}
Names == UNION {[1..k -> NameChars] : k \in 0..MaxName}

NamerCalls ==
    [fn : {"generate_path"}, match : OrganizerMatches,
     original_extension : {Suffix(f) : f \in Files}]
    \cup [fn : {"sanitize_filename"}, name : Names]

InitNamer ==
    /\ InitPipeline
    /\ call \in NamerCalls
    /\ ret = NoCall
    /\ returned = FALSE

CallGeneratePath ==
    /\ call.fn = "generate_path"
    /\ Return(generate_path(call.match, call.original_extension))

CallSanitizeFilename ==
    /\ call.fn = "sanitize_filename"
    /\ Return(Path(<<sanitize_filename(call.name)>>))

\* The content types parse_fallback_response can produce (handler.py:136,
\* 149-154); the prompt of analyze_frames (handler.py:83) also asks the model
\* for music_video and other, and json.loads passes on whatever it answers.
ContentTypes == {"movie", "tv_episode", "documentary", "unknown"}
PromptContentTypes == {"movie", "tv_episode", "documentary", "music_video", "other"}

\* What handler returns for a video_analysis task, as far as the coordinator
\* reads it. "None" and NoneInt stand for a key that is absent: the responses
\* {"error": ...} of handler.py:220, 243 and 247 have no other key.
BackendResponses ==
    [content_type : ContentTypes \cup PromptContentTypes \cup {"None"},
     has_title : BOOLEAN, confidence : {NoneInt, 0, 50, 100}, error : BOOLEAN]

\* The values of the INSERT of store_analysis_results: analysis.get(
\* 'content_type') and analysis.get('title') without a default (None becomes
\* NULL), analysis.get('confidence', 0).
analysis_values(v, analysis) ==
    [video_id |-> v,
     content_type |-> analysis.content_type,
     has_title |-> analysis.has_title,
     confidence_score |->
        IF analysis.confidence = NoneInt THEN 0 ELSE analysis.confidence]

\* RunPodClient.__init__ reads RUNPOD_ENDPOINT_ID and RUNPOD_POD_ID with
\* os.getenv: None when unset, else the string, which may be empty.
\* use_serverless = bool(self.endpoint_id).
EnvValues == {"None", "", "id"}
IsSet(x) == x \notin {"None", ""}
use_serverless(endpoint_id) == IsSet(endpoint_id)

\* What runpod.get_pod answers: a pod with a status, None, or an exception.
PodAnswers == {"running", "exited", "None", "raises"}

\* check_pod_status for a client with this pod id: "if not self.pod_id:
\* return True"; else True exactly for a pod whose status is 'running'.
check_pod_status_result(pod_id, pod) ==
    IF ~IsSet(pod_id) THEN TRUE ELSE pod = "running"

AnalyzerCalls ==
    [fn : {"store_analysis_results"}, video_id : Files,
     analysis : BackendResponses]
    \cup [fn : {"check_pod_status"}, endpoint_id : EnvValues,
          pod_id : EnvValues, pod : PodAnswers]

InitAnalyzerCalls ==
    /\ InitPipeline
    /\ call \in AnalyzerCalls
    /\ ret = NoCall
    /\ returned = FALSE

\* store_analysis_results: the INSERT and the commit, or an exception of
\* either that is logged and rolled back.
CallStoreAnalysisResults ==
    /\ call.fn = "store_analysis_results"
    /\ \E stored \in BOOLEAN :
          Return([stored |-> stored,
                  row |-> analysis_values(call.video_id, call.analysis)])

\* One call of check_pod_status on a client built from the environment.
CallCheckPodStatus ==
    /\ call.fn = "check_pod_status"
    /\ Return([available |-> check_pod_status_result(call.pod_id, call.pod)])

\* ------------------------------------------------------ specifications ----
\* One ingestion service (main() of sync_sources.py runs its sources one
\* after the other), the analysis workers and the organization workers.
Pipeline ==
    \/ Ingest("i1")
    \/ \E w \in Analyzers : Analyzer(w)
    \/ \E w \in Organizers : Organizer(w)

Next ==
    \/ Pipeline
    \/ \E w \in Analyzers : InterruptAnalyzer(w)
    \/ \E w \in Organizers : InterruptOrganizer(w)

\* The code on Redis lists: every notification is popped exactly once.
Spec == Init /\ [][Next]_vars

\* The code on a work queue that delivers at least once, followed for the
\* one file of a raw directory.
NextAtLeastOnce == Pipeline \/ Redeliver
SpecAtLeastOnce == InitOneFile /\ [][NextAtLeastOnce]_vars

\* Every worker that is not stopped keeps running its loop.
FairSpec ==
    /\ Spec
    /\ \A w \in Analyzers : WF_vars(Analyzer(w))
    /\ \A w \in Organizers : WF_vars(Organizer(w))

\* The same for the one file of a raw directory.
FairSpecOneFile ==
    /\ InitOneFile /\ [][Next]_vars
    /\ \A w \in Analyzers : WF_vars(Analyzer(w))
    /\ \A w \in Organizers : WF_vars(Organizer(w))

\* Two ingestion services running process_synced_files at the same time.
NextIngest == \E p \in Ingesters : Ingest(p)
SpecIngest == Init /\ [][NextIngest]_vars

\* The pipeline for the one file of a raw directory, with a database server
\* that may become unreachable; the workers keep taking steps.
NextOutage == Pipeline \/ DbGoesDown

\* The pipeline for the one file of a raw directory, which may be removed
\* after it has been registered.
NextRemoval == Pipeline \/ FileRemoved
SpecRemoval == InitOneFile /\ [][NextRemoval]_vars
SpecOutage == InitOneFile /\ [][NextOutage]_vars
FairSpecOutage ==
    /\ SpecOutage
    /\ \A w \in Analyzers : WF_vars(Analyzer(w))
    /\ \A w \in Organizers : WF_vars(Organizer(w))

\* One call of the matcher on one catalog answer.
NextMatcher == CallMatchMovie \/ CallMatchTvShow \/ CallAutoMatch
SpecMatcher == InitMatcher /\ [][NextMatcher]_vars

\* One call of the namer.
NextNamer == CallGeneratePath \/ CallSanitizeFilename
SpecNamer == InitNamer /\ [][NextNamer]_vars

\* One call of store_analysis_results.
NextAnalyzerCalls == CallStoreAnalysisResults \/ CallCheckPodStatus
SpecAnalyzerCalls == InitAnalyzerCalls /\ [][NextAnalyzerCalls]_vars

\* ------------------------------------------------------------- claims ----
\* A worker is inside the stage handler for item v.
AnalyzeRunning(w, v) ==
    /\ acur[w] = v
    /\ apc[w] \in {"analyze", "extract", "backend", "store", "advance",
                  "org_job", "org_push"}
OrganizeRunning(w, v) ==
    /\ ocur[w] = v
    /\ opc[w] \in {"organize", "match", "auto_match", "place", "advance",
                  "upload"}

\* C1: among the workers of one stage, at most one is running the stage
\* handler (analyze_video, organize_video) for a given item at any time:
\* a second wake-up for work that is already claimed is discarded.
C1_ClaimExclusive ==
    /\ \A v \in VideoIds : \A w1, w2 \in Analyzers :
          AnalyzeRunning(w1, v) /\ AnalyzeRunning(w2, v) => w1 = w2
    /\ \A v \in VideoIds : \A w1, w2 \in Organizers :
          OrganizeRunning(w1, v) /\ OrganizeRunning(w2, v) => w1 = w2

\* The transitions of the Item state machine.
StatusStep(a, b) ==
    <<a, b>> \in {<<"pending", "analyzing">>,
                  <<"analyzing", "analyzed">>, <<"analyzing", "error">>,
                  <<"analyzed", "organizing">>,
                  <<"organizing", "organized">>, <<"organizing", "error">>}

\* C2: every change of an Item's status is a transition of the machine
\* pending -> analyzing -> (analyzed | error), analyzed -> organizing ->
\* (organized | error); no status is skipped or reversed.
C2_StatusPath ==
    [][\A v \in VideoIds :
          videos'[v].status # videos[v].status
             => StatusStep(videos[v].status, videos'[v].status)]_vars

WithHash(h) == {v \in VideoIds : videos[v].file_hash = h}

\* C3: when one ingestion run has added a file and then comes to a file
\* with byte-identical content (whatever its path) and can query the
\* database, it reports that file as a duplicate, and exactly one row of
\* videos carries the fingerprint.
C3_DedupSequential ==
    \A p \in Ingesters : \A f, g \in Files :
        (/\ f # g
         /\ Content(f) = Content(g)
         /\ outcome[p][f] = "added"
         /\ outcome[p][g] \notin {"none", "unreadable", "failed"})
        => /\ outcome[p][g] = "duplicate"
           /\ Cardinality(WithHash(calculate_file_hash(g))) = 1

C3_Witness ==
    \E p \in Ingesters : \E f, g \in Files :
        /\ f # g
        /\ Content(f) = Content(g)
        /\ outcome[p][f] = "added"
        /\ outcome[p][g] = "duplicate"

KilledWhileAnalyzing(v) ==
    /\ v \in VideoIds
    /\ videos[v].status = "analyzing"
    /\ \E w \in Analyzers : apc[w] = "stopped" /\ acur[w] = v
    /\ \A w \in Analyzers : ~AnalyzeRunning(w, v)

\* C5: an Item left in 'analyzing' by a worker that was killed does not
\* stay there: it eventually leaves 'analyzing' (a sweep returns it to
\* 'pending').
C5_CrashRecovery ==
    \A v \in Files :
        KilledWhileAnalyzing(v)
           ~> (v \in VideoIds /\ videos[v].status # "analyzing")

\* C6: every Item has at most one row in analysis_results.
C6_OneAnalysisResult ==
    \A v \in VideoIds : Rows(analysis_results, v) <= 1

\* C7: every Item has at most one row in organized_files.
C7_OnePlacement ==
    \A v \in VideoIds : Rows(organized_files, v) <= 1

\* C8: an Item in 'pending' always has a queued 'analyze' row in jobs.
C8_PendingHasWorkEntry ==
    \A v \in VideoIds :
        videos[v].status = "pending"
           => CopiesIn(JobRow("analyze", v), jobs) >= 1

\* The notification of v's queued 'analyze' job is gone: the Item is
\* pending, its job is queued, and the id is neither in analysis_queue,
\* nor about to be pushed, nor held by a worker.
NotificationLost(v) ==
    /\ v \in VideoIds
    /\ videos[v].status = "pending"
    /\ CopiesIn(JobRow("analyze", v), jobs) >= 1
    /\ ~InQueue(analysis_queue, v)
    /\ \A w \in Analyzers : ~AHolds(w, v)
    /\ \A p \in Ingesters : ~(ipc[p] = "queue_push" /\ ivid[p] = v)

\* C9: a queued 'analyze' job whose notification was lost is still picked
\* up eventually by a worker.
C9_LostNotificationRecovered ==
    \A v \in Files :
        NotificationLost(v) ~> (\E w \in Analyzers : AnalyzeRunning(w, v))

\* C10: once the analysis handler has finished successfully for an Item
\* (an organizer has taken the Item over), the Item's 'analyze' row in jobs
\* is 'done' and no longer 'queued'.
C10_WorkEntryDone ==
    \A v \in VideoIds :
        videos[v].status \in {"organizing", "organized"}
           => /\ CopiesIn(JobRow("analyze", v), jobs) = 0
              /\ CopiesIn([job_type |-> "analyze", video_id |-> v,
                           status |-> "done"], jobs) >= 1

\* C11: for every Item and stage at most one row of jobs is active (queued
\* or in_progress): repeated analyses of one Item do not add a second
\* 'organize' row.
C11_OneActiveWorkEntry ==
    \A v \in VideoIds : \A type \in {"analyze", "organize"} :
        CopiesIn(JobRow(type, v), jobs)
          + CopiesIn([job_type |-> type, video_id |-> v,
                      status |-> "in_progress"], jobs) <= 1

\* C12: status and analysis_results agree: an Item that is analyzed,
\* organizing or organized has a row in analysis_results, and an Item that
\* is pending or analyzing has none.
C12_StatusMatchesResult ==
    \A v \in VideoIds :
        /\ videos[v].status \in {"analyzed", "organizing", "organized"}
              => Rows(analysis_results, v) >= 1
        /\ videos[v].status \in {"pending", "analyzing"}
              => Rows(analysis_results, v) = 0

\* C13: every confidence the matcher emits (match_movie, match_tv_show,
\* auto_match) lies in [0, 1], that is 0..100 hundredths.
C13_ConfidenceBounds ==
    (returned /\ IsMatch(ret)) => (ret.confidence >= 0 /\ ret.confidence <= 100)

\* C14: once an organization run has got a match for an Item from
\* auto_match, no later step searches the catalog for that Item again: the
\* stored match is reused.
C14_MatchMemoized ==
    [][\A v \in resolved :
          CopiesIn(v, catalog_queries') = CopiesIn(v, catalog_queries)]_vars

\* An organizer has just taken an existing row of media_matches as its match.
UsesStoredMatch(w) ==
    /\ omatch[w].origin # "media_matches"
    /\ omatch'[w].origin = "media_matches"

FallbackAt(w, v) ==
    /\ ocur[w] = v
    /\ opc[w] = "place"
    /\ omatch[w].origin = "fallback"

\* Item v is organized and has a row in organized_files under other_path.
PlacedInOther(v) ==
    /\ v \in VideoIds
    /\ videos[v].status = "organized"
    /\ \E r \in RowsOf(organized_files, v) :
          SubSeq(r.jellyfin_path, 1, Len(other_path)) = other_path

\* C16: when auto_match returns no match the organizer goes on with a match
\* of type 'unknown', confidence 0, titled with the file's name without
\* its extension; and unless a call fails or the worker is interrupted
\* afterwards, the Item becomes 'organized' with a Placement under the
\* Other location.
C16_FallbackPlaced ==
    /\ [](\A w \in Organizers :
             omatch[w].origin = "fallback"
                => /\ omatch[w].match.media_type = "unknown"
                   /\ omatch[w].match.confidence = 0
                   /\ omatch[w].match.title = Stem(videos[ocur[w]].source_path))
    /\ \A v \in Files : \A n \in 0..MaxFaults : \A k \in 0..MaxInterrupts :
          (/\ \E w \in Organizers : FallbackAt(w, v)
           /\ faults = n
           /\ interrupts = k)
             ~> (PlacedInOther(v) \/ faults > n \/ interrupts > k)

C16_Witness == \E v \in VideoIds : PlacedInOther(v)

\* C17: generate_path returns a path for every match organize_video can
\* hand to it; it never raises.
C17_GeneratePathTotal ==
    (returned /\ call.fn = "generate_path") => ~ret.raised

\* The sanitized title as the claim describes it: invalid characters
\* removed, then the words (maximal runs without whitespace) joined by
\* single spaces.
RECURSIVE Words(_, _)
Words(name, word) ==
    IF name = <<>> THEN (IF word = <<>> THEN <<>> ELSE <<word>>)
    ELSE IF Head(name) \in Whitespace
    THEN (IF word = <<>> THEN <<>> ELSE <<word>>) \o Words(Tail(name), <<>>)
    ELSE Words(Tail(name), Append(word, Head(name)))
RECURSIVE JoinWords(_)
JoinWords(words) ==
    IF words = <<>> THEN <<>>
    ELSE IF Len(words) = 1 THEN words[1]
    ELSE words[1] \o <<" ">> \o JoinWords(Tail(words))
Sanitized(title) == JoinWords(Words(SelectSeq(title, IsValidChar), <<>>))

\* C18: for a movie match with title T and year Y and extension E the path
\* generated, which is the path recorded relative to the organized root, is
\* Movies/S (Y)/S (Y)E with S the sanitized T.
C18_MoviePath ==
    (returned /\ call.fn = "generate_path" /\ call.match.media_type = "movie")
       => LET S == Sanitized(call.match.title)
              folder == S \o <<" (", YearStr(call.match.year), ")">>
          IN /\ ~ret.raised
             /\ ret.path = << <<"Movies">>, folder,
                              folder \o call.original_extension >>

\* C19: in every iteration of the analysis worker the availability check
\* comes before the brpop: a worker is at the brpop only with a check that
\* returned True, and a worker whose check returned False holds no id, pops
\* nothing and goes through the sleep back to the check.
C19_CheckBeforePop ==
    /\ [](\A w \in Analyzers :
             /\ apc[w] = "pop" => pod_available[w]
             /\ apc[w] = "sleep" => (~pod_available[w] /\ acur[w] = 0))
    /\ [][\A w \in Analyzers :
             /\ (apc'[w] = "pop" /\ apc[w] # "pop") => apc[w] = "check"
             /\ (apc'[w] = "analyze" /\ apc[w] # "analyze") => apc[w] = "pop"
             /\ (apc[w] = "check" /\ apc'[w] = "sleep")
                   => (analysis_queue' = analysis_queue /\ acur'[w] = acur[w])
             /\ apc[w] = "sleep"
                   => (/\ apc'[w] \in {"sleep", "check", "stopped"}
                       /\ acur'[w] = acur[w])]_vars
C19_Witness ==
    \E w \in Analyzers :
       /\ apc[w] = "sleep"
       /\ analysis_queue # <<>>

\* C20: a row stored in analysis_results has a content_type among movie,
\* tv_episode, documentary and unknown, and it is unknown when the response
\* has no content_type or one outside these.
C20_ContentTypeDefault ==
    (returned /\ call.fn = "store_analysis_results" /\ ret.stored)
       => /\ ret.row.content_type \in ContentTypes
          /\ call.analysis.content_type \notin ContentTypes
                => ret.row.content_type = "unknown"

\* C21: when the backend call of the analysis handler fails (a timeout, the
\* backend temporarily unavailable), the Item goes back to pending and its
\* id is on the way back to the analysis queue; it is not set to error.
BackendFailed(w) == apc[w] = "backend" /\ apc'[w] \notin {"backend", "store", "stopped"}
C21_TransientRequeued ==
    [][\A w \in Analyzers :
          BackendFailed(w)
             => /\ videos'[acur[w]].status = "pending"
                /\ \/ InQueue(analysis_queue', acur[w])
                   \/ (apc'[w] = "requeue" /\ acur'[w] = acur[w])]_vars

\* C22: an Item is pushed back on the analysis queue by the worker's except
\* clause only finitely often: from some point on no worker re-queues it.
RequeueStep(v) ==
    \E w \in Analyzers :
       /\ apc[w] = "requeue"
       /\ acur[w] = v
       /\ analysis_queue' = lpush(analysis_queue, v)
C22_RequeueBounded ==
    \A v \in Files : <>[][~RequeueStep(v)]_vars

\* C23: when the analysis handler finds the source file of an Item missing,
\* the Item's status becomes error and its id is not put back on the queue.
FoundMissing(w) ==
    /\ apc[w] = "analyze"
    /\ videos[acur[w]].source_path \in removed
    /\ apc'[w] = "check"
    /\ faults' = faults
C23_MissingIsError ==
    [][\A w \in Analyzers :
          FoundMissing(w)
             => /\ videos'[acur[w]].status = "error"
                /\ analysis_queue' = analysis_queue]_vars

\* C24: a worker that has found the database unreachable (get_db_connection
\* raised, which takes it to the except clause of its loop) pops nothing
\* from its queue afterwards.
C24_NoClaimAfterOutage ==
    /\ \A w \in Analyzers : [](apc[w] = "requeue" => [](apc[w] # "analyze"))
    /\ \A w \in Organizers : [](opc[w] = "failed" => [](opc[w] # "organize"))

\* A worker was stopped while it had item v in 'organizing'.
StoppedWhileOrganizing(v) ==
    /\ v \in VideoIds
    /\ videos[v].status = "organizing"
    /\ \E w \in Organizers : opc[w] = "stopped" /\ ocur[w] = v
    /\ \A w \in Organizers : ~OrganizeRunning(w, v)

\* C25: a KeyboardInterrupt that reaches a worker while it processes an Item
\* lets the handler finish or fail first: once the worker has stopped, the
\* Item it was working on is not in 'analyzing' or 'organizing'.
C25_GracefulShutdown ==
    \A v \in VideoIds : ~KilledWhileAnalyzing(v) /\ ~StoppedWhileOrganizing(v)

\* C26: a file whose fingerprint is registered is skipped without any
\* effect on the videos table, the jobs table and the analysis queue, and
\* no step of the ingestion service removes a row of videos or changes one
\* that exists.
ResyncStep(p) ==
    /\ ipc[p] \in {"select", "insert"}
    /\ SelectByHash(calculate_file_hash(ifile[p]))
    /\ ipc'[p] # ipc[p]
C26_ResyncNoEffect ==
    [][/\ \A p \in Ingesters :
             ResyncStep(p)
                => /\ videos' = videos
                   /\ jobs' = jobs
                   /\ analysis_queue' = analysis_queue
       /\ ivars' # ivars
             => /\ Len(videos') >= Len(videos)
                /\ \A v \in VideoIds : videos'[v] = videos[v]]_vars
C26_Witness ==
    \E p \in Ingesters : \E f \in Files : \E v \in VideoIds :
       /\ outcome[p][f] = "duplicate"
       /\ videos[v].file_hash = calculate_file_hash(f)
       /\ videos[v].status = "analyzed"

\* C27: a file that cannot be read while it is hashed is not registered:
\* the step that finds it unreadable changes no table and no queue and goes
\* on to the next file, and the run never inserts a row for it.
FoundUnreadable(p, f) ==
    outcome'[p][f] = "unreadable" /\ outcome[p][f] # "unreadable"
C27_UnreadableNoEffect ==
    /\ [][\A p \in Ingesters : \A f \in Files :
             FoundUnreadable(p, f)
                => /\ videos' = videos
                   /\ jobs' = jobs
                   /\ analysis_queue' = analysis_queue
                   /\ ipc'[p] = "scan"
                   /\ f \notin itodo'[p]]_vars
    /\ [](\A f \in Files :
             outcome["i1"][f] = "unreadable"
                => \A v \in VideoIds : videos[v].source_path # f)
C27_Witness ==
    \E f \in Files :
       /\ outcome["i1"][f] = "unreadable"
       /\ itodo["i1"] = {}
       /\ ipc["i1"] = "scan"
       /\ videos # <<>>

\* C28: an Item that an analysis worker has set to 'analyzing' is 'analyzed'
\* or 'error' when analyze_video returns, whatever the outcome (no frames,
\* a failure of the backend, a failure of a database call).
HandlerReturns(w) ==
    /\ apc[w] \in {"extract", "backend", "store", "advance", "org_job",
                  "org_push"}
    /\ apc'[w] = "check"
C28_AnalyzingResolved ==
    [][\A w \in Analyzers :
          HandlerReturns(w)
             => videos'[acur[w]].status \in {"analyzed", "error"}]_vars

\* What the dispatch of the claim gives for a typed analysis: the movie
\* search alone at 70 for movie, the show search alone at 70 with the
\* detected season and episode for tv_episode.
TypedCall == returned /\ call.fn = "auto_match" /\ call.a.has_title
TypedDispatch ==
    /\ (TypedCall /\ call.a.content_type = "movie")
          => /\ auto_match_searches(call.a, call.cat)
                   = <<Search("movie", 70, NoneInt, NoneInt)>>
             /\ ret = match_movie(call.a.year, 70, call.cat.movies)
    /\ (TypedCall /\ call.a.content_type = "tv_episode")
          => /\ auto_match_searches(call.a, call.cat)
                   = <<Search("tv", 70, call.a.season, call.a.episode)>>
             /\ ret = match_tv_show(call.a.season, call.a.episode, call.a.year,
                                    70, call.cat.shows, call.cat.episode_name)
AmbiguousCall ==
    TypedCall /\ call.a.content_type \notin {"movie", "tv_episode"}
AmbiguousResults ==
    {match_movie(call.a.year, 80, call.cat.movies),
     match_tv_show(NoneInt, NoneInt, call.a.year, 80, call.cat.shows,
                   call.cat.episode_name)}

ClaimedScore(c, year) ==
    IF year # NoneInt /\ c.year # NoneInt
          /\ c.year - year <= 1 /\ year - c.year <= 1
    THEN c.score + 10 ELSE c.score
ClaimedScores(results, year) ==
    {ClaimedScore(results[i], year) :
        i \in {j \in 1..Len(results) : j <= 10}}

MatchCall == returned /\ call.fn \in {"match_movie", "match_tv_show"}
Looked == {i \in 1..Len(call.results) : i <= 10}
ScoreAt(i) ==
    IF call.fn = "match_movie" THEN MovieScore(call.results[i], call.year)
    ELSE TvScore(call.results[i], call.year)

\* C31: when several of the candidates looked at have the greatest score,
\* match_movie and match_tv_show return the first of them in the order of
\* the search results.
C31_FirstOfEqual ==
    (MatchCall /\ IsMatch(ret))
       => /\ ret.tmdb_id \in Looked
          /\ \A i \in Looked : ScoreAt(i) <= ScoreAt(ret.tmdb_id)
          /\ \A i \in Looked :
                ScoreAt(i) = ScoreAt(ret.tmdb_id) => ret.tmdb_id <= i
C31_Witness ==
    /\ MatchCall /\ IsMatch(ret)
    /\ call.fn = "match_tv_show"
    /\ ret.tmdb_id = 1
    /\ \E i \in Looked :
          /\ i > 1
          /\ ScoreAt(i) = ScoreAt(1)
          /\ call.results[i] # call.results[1]

\* The two results of the ambiguous path of the call.
MovieResult == match_movie(call.a.year, 80, call.cat.movies)
TvResult ==
    match_tv_show(NoneInt, NoneInt, call.a.year, 80, call.cat.shows,
                  call.cat.episode_name)
Exceeds(m) == IsMatch(m) /\ m.confidence > 85

\* C32: for an ambiguous content type auto_match returns the movie result
\* when its confidence exceeds 0.85, else the show result when its
\* confidence exceeds 0.85, else of two results the one with the higher
\* confidence, else the only result, else None; a result returned on this
\* path has a confidence of at least 0.80.
C32_AmbiguousSelection ==
    AmbiguousCall
       => /\ Exceeds(MovieResult) => ret = MovieResult
          /\ (~Exceeds(MovieResult) /\ Exceeds(TvResult)) => ret = TvResult
          /\ (~Exceeds(MovieResult) /\ ~Exceeds(TvResult))
                => /\ (IsMatch(MovieResult) /\ IsMatch(TvResult))
                         => /\ ret \in {MovieResult, TvResult}
                            /\ ret.confidence >= MovieResult.confidence
                            /\ ret.confidence >= TvResult.confidence
                   /\ (IsMatch(MovieResult) /\ ~IsMatch(TvResult))
                         => ret = MovieResult
                   /\ (~IsMatch(MovieResult) /\ IsMatch(TvResult))
                         => ret = TvResult
                   /\ (~IsMatch(MovieResult) /\ ~IsMatch(TvResult))
                         => ret = NoneMatch
          /\ IsMatch(ret) => ret.confidence >= 80
C32_Witness ==
    /\ AmbiguousCall
    /\ IsMatch(MovieResult) /\ IsMatch(TvResult)
    /\ ~Exceeds(MovieResult) /\ ~Exceeds(TvResult)
    /\ TvResult.confidence > MovieResult.confidence
    /\ MovieResult.confidence = 80
    /\ ret = TvResult

\* A step that puts v on organization_queue, and a step in which
\* organization worker w takes v from it.
OrgPushStep(v) ==
    /\ Len(organization_queue') = Len(organization_queue) + 1
    /\ Head(organization_queue') = v
OrgPopStep(w, v) ==
    /\ opc[w] = "pop"
    /\ opc'[w] = "organize"
    /\ ocur'[w] = v
ResultWritten(v) == Rows(analysis_results, v) >= 1
AnalyzedCommitted(v) == videos[v].status = "analyzed"
OrganizeJobInserted(v) == CopiesIn(JobRow("organize", v), jobs) >= 1

\* C33: an Item is put on organization_queue only when its row in
\* analysis_results is written, its status is 'analyzed' and its 'organize'
\* row in jobs is inserted; and no organization worker takes an Item whose
\* status is 'pending' or 'analyzing'.
C33_PushAfterWrites ==
    [][/\ \A v \in Files :
             OrgPushStep(v)
                => /\ ResultWritten(v)
                   /\ AnalyzedCommitted(v)
                   /\ OrganizeJobInserted(v)
       /\ \A w \in Organizers : \A v \in Files :
             OrgPopStep(w, v)
                => videos[v].status \notin {"pending", "analyzing"}]_vars

\* Item v has a row in organized_files under other_path.
RowInOther(v) ==
    \E r \in RowsOf(organized_files, v) :
       SubSeq(r.jellyfin_path, 1, Len(other_path)) = other_path

\* C34: an Item whose matching met a failure of the catalog is not marked
\* 'organized' and gets no Placement under the Other location.
C34_CatalogFailureNotPlaced ==
    \A v \in catalog_failed :
        /\ videos[v].status # "organized"
        /\ ~RowInOther(v)

\* C35: an Item whose status is 'organized' has a row in organized_files.
C35_OrganizedHasPlacement ==
    \A v \in VideoIds :
        videos[v].status = "organized" => Rows(organized_files, v) >= 1
C35_Witness ==
    \E v \in VideoIds :
        /\ videos[v].status = "organized"
        /\ Rows(organized_files, v) = 1
        /\ faults = MaxFaults

\* C36: once the status of an Item is 'organized' or 'error', no step
\* changes it.
C36_TerminalStable ==
    [][\A v \in VideoIds :
          videos[v].status \in {"organized", "error"}
             => videos'[v].status = videos[v].status]_vars

\* C37: a client in serverless mode (an endpoint id is configured) gets
\* True from check_pod_status, whatever pod id is configured and whatever
\* the pod's state.
C37_ServerlessAvailable ==
    (returned /\ call.fn = "check_pod_status"
        /\ use_serverless(call.endpoint_id))
       => ret.available

\* The name a call of sanitize_filename returned.
SanitizedName == ret.path[1]

\* C38: sanitize_filename is idempotent, and its result has none of the
\* characters < > : " / \ | ? *, no two whitespace characters in a row and
\* no whitespace at either end.
C38_SanitizeIdempotentClean ==
    (returned /\ call.fn = "sanitize_filename")
       => /\ sanitize_filename(SanitizedName) = SanitizedName
          /\ \A i \in 1..Len(SanitizedName) :
                SanitizedName[i] \notin {"<", ">", ":", "\"", "/", "\\", "|", "?", "*"}
          /\ \A i \in 1..(Len(SanitizedName) - 1) :
                ~(SanitizedName[i] \in {" ", "\t"} /\ SanitizedName[i + 1] \in {" ", "\t"})
          /\ SanitizedName # <<>>
                => /\ SanitizedName[1] \notin {" ", "\t"}
                   /\ SanitizedName[Len(SanitizedName)] \notin {" ", "\t"}
C38_Witness ==
    /\ returned
    /\ call.fn = "sanitize_filename"
    /\ call.name = <<"A", "\t", "/", " ", "A">>
    /\ SanitizedName = <<"A", " ", "A">>

====
